---- MODULE Spec2Model ----
(***************************************************************************)
(* Multi-agent session registry and message routing of backend-metamove.  *)
(*                                                                         *)
(* Two generations of the subsystem live in the repository and both are   *)
(* modelled:                                                               *)
(*  - the in-process registry (AgentService of src/unnamed/part_013,      *)
(*    lines 569-922) together with the AptosService singleton it binds    *)
(*    runtimes through (same file, lines 26-465);                          *)
(*  - the persisted registry (src/src/services/agentService.js), the      *)
(*    conversation store (src/unnamed/part_010) and the controller that   *)
(*    routes messages through them (src/src/controllers/                  *)
(*    agentController.js, lines 229-1006).                                 *)
(*                                                                         *)
(* JavaScript runs each handler without interruption up to its next       *)
(* `await`; every action below is one such uninterrupted stretch.         *)
(***************************************************************************)
EXTENDS Integers, Sequences, FiniteSets, TLC

\* ---------------------------------------------------------------- bounds
MaxUuid == 2          \* identifiers the uuid generator hands out in one run
MaxObjects == 3       \* runtime objects constructed in one run
MaxAgentIds == 1      \* agent ids the persisted registry is tried with
NumCtlHandlers == 2   \* controller requests in flight at once
MaxArrivals == 2      \* message requests admitted in one run
MaxLogLen == 3        \* longest stored log a read is tried on
MaxLimit == 4         \* largest limit a read is tried with
MaxClock == 2         \* hours the clock runs through
MaxHours == 2         \* largest maximum age a cleanup is asked with

NumMemHandlers == 2  \* service calls in flight at once
MemHandlers == 1..NumMemHandlers

Users == {"u1", "u2"}
UserInputs == Users \cup {""}
GoodKeys == {"k1", "k2"}
KeyInputs == GoodKeys \cup {"", "bad"}

AgentIdInputs == 1..MaxUuid
AgentIdArgs == AgentIdInputs \cup {0}      \* 0: no agentId given
NameArgs == {"", "n1"}

\* ------------------------------------------------------- runtime objects
\* A runtime object is known by the serial number of its construction (its
\* identity) and by what it was built from.
NoRt == [id |-> 0, key |-> ""]
NoLlm == [id |-> 0, rt |-> NoRt]

VARIABLES
    agents,        \* AgentService.agents: the keys present in the Map
    agentObjs,     \* the agentData objects, by agentId (shared by reference)
    userAgents,    \* AgentService.userAgents: userId -> array of agentIds
    aptosService,  \* the AptosService singleton: [agent, llmAgent]
    anthropicKey,  \* process.env.ANTHROPIC_API_KEY is set
    nextUuid,      \* uuidv4(): the next fresh identifier
    serial,        \* runtime objects constructed so far
    llmBuilds,     \* per agentId: conversational runtimes built for its routes
    mh             \* the service calls in flight

memVars == <<agents, agentObjs, userAgents, aptosService, anthropicKey,
             nextUuid, serial, llmBuilds, mh>>

VARIABLES
    agentsDb,      \* the Agent collection: a set of documents
    convsDb,       \* the Conversation collection: a set of documents
    now,           \* the clock new Date() / Date.now read
    arrivals,      \* message requests admitted so far
    seqCalls,      \* per (userId, agentId): the calls answered in sequence
    ch             \* the controller requests in flight

convVars == <<agentsDb, convsDb, now, arrivals, seqCalls, ch>>

VARIABLES
    readLog,       \* a stored message log
    readLimit,     \* the limit a read of it is given
    readOut,       \* what the read returned
    readDone       \* the read has returned

readVars == <<readLog, readLimit, readOut, readDone>>

\* The per-user controller generation and the admission middleware.
VARIABLES
    perUserAgents, \* the per-user AgentService.userAgents: userId -> info
    sh,            \* the per-user processMessage requests in flight
    res,           \* the response object of each of them
    hits,          \* rateLimiter's store: key -> requests counted this window
    sensitiveHits, \* sensitiveRateLimiter's store, likewise
    admitted       \* creations and removals let through this window, by pair

streamVars == <<perUserAgents, sh, res>>
limitVars == <<hits, sensitiveHits, admitted>>
httpVars == <<streamVars, limitVars>>

VARIABLES
    resp           \* what the step just taken returned to its caller, if anything

vars == <<memVars, convVars, readVars, httpVars, resp>>

\* A step that returns nothing to a caller.
NoResp == [op |-> "none", userId |-> "", agentId |-> 0, name |-> "",
           hours |-> 0, status |-> "", count |-> 0, appended |-> FALSE,
           messages |-> <<>>]

Silent == resp' = NoResp

IdleM == [op |-> "idle", pc |-> "idle", userId |-> "", key |-> "", name |-> "",
          agentId |-> 0,
          rt |-> NoRt, boundAtStart |-> FALSE, built |-> 0,
          wrote |-> FALSE, usedLlm |-> NoLlm]

\* A new call takes the first slot no call occupies; a call that has returned
\* leaves its slot idle.
Free(h) == mh[h].pc = "idle" /\ \A g \in MemHandlers : g < h => mh[g].pc # "idle"

Range(s) == {s[i] : i \in 1..Len(s)}

\* --------------------------------------------------- AptosService (binder)

\* initializeAgent that binds whatever key it is given.
InitializeAgentAnyKey(svc, key, n) ==
    [ok |-> TRUE,
     svc |-> [svc EXCEPT !.agent = [id |-> n + 1, key |-> key]],
     serial |-> n + 1]

\* AptosService.initializeAgent: a malformed key makes Ed25519PrivateKey throw
\* and leaves this.agent as it was; otherwise this.agent is a new runtime.
InitializeAgent(svc, key, n) ==
    IF key \notin GoodKeys
    THEN [ok |-> FALSE, svc |-> svc, serial |-> n]
    ELSE [ok |-> TRUE,
          svc |-> [svc EXCEPT !.agent = [id |-> n + 1, key |-> key]],
          serial |-> n + 1]

\* The same without the guard that the blockchain runtime is set.
InitializeLLMAgentUnguarded(svc, apiKey, n) ==
    IF ~apiKey
    THEN [ok |-> FALSE, svc |-> svc, serial |-> n]
    ELSE [ok |-> TRUE,
          svc |-> [svc EXCEPT !.llmAgent = [id |-> n + 1, rt |-> svc.agent]],
          serial |-> n + 1]

\* AptosService.initializeLLMAgent: throws without the API key or while
\* this.agent is unset; otherwise builds the conversational runtime from the
\* tools of this.agent, whatever runtime that is at the moment of the call.
InitializeLLMAgent(svc, apiKey, n) ==
    IF ~apiKey \/ svc.agent = NoRt
    THEN [ok |-> FALSE, svc |-> svc, serial |-> n]
    ELSE [ok |-> TRUE,
          svc |-> [svc EXCEPT !.llmAgent = [id |-> n + 1, rt |-> svc.agent]],
          serial |-> n + 1]

\* AptosService.processAgentMessage up to its first await: builds the
\* conversational runtime if the singleton has none, else invokes the one the
\* singleton holds.  pc "idle" says the call threw.
ApmEnter(svc, apiKey, n) ==
    IF svc.llmAgent = NoLlm
    THEN LET r == InitializeLLMAgent(svc, apiKey, n)
         IN  [pc |-> IF r.ok THEN "apmInit" ELSE "idle", svc |-> r.svc,
              serial |-> r.serial, usedLlm |-> NoLlm,
              built |-> IF r.ok THEN 1 ELSE 0]
    ELSE [pc |-> "invoke", svc |-> svc, serial |-> n, usedLlm |-> svc.llmAgent,
          built |-> 0]

\* --------------------------------------- AgentService (in-process registry)

\* initializeUserAgent, lines 621-628: the record enters the owner's list.
IndexAdd(ua, u, a) ==
    IF u \in DOMAIN ua THEN [ua EXCEPT ![u] = Append(@, a)] ELSE ua @@ (u :> <<a>>)

\* name || `Agent-${agentId.slice(0, 8)}`: a name is a pair of strings, the
\* given name or the prefix with the head of the id.
AgentName(nm, a) == IF nm # "" THEN <<nm, "">> ELSE <<"Agent-", ToString(a)>>

\* initializeUserAgent up to `await aptosService.initializeAgent(privateKey)`.
\* An empty userId or key, or a key the signer rejects, makes the call throw.
InitializeUserAgentStart(h, u, k, nm) ==
    /\ UNCHANGED <<convVars, readVars, httpVars>> /\ Silent
    /\ Free(h)
    /\ IF u = "" \/ k = ""
       THEN UNCHANGED <<nextUuid, aptosService, serial, mh>>
       ELSE LET r == InitializeAgent(aptosService, k, serial)
            IN  /\ nextUuid <= MaxUuid
                /\ r.serial <= MaxObjects
                /\ nextUuid' = nextUuid + 1
                /\ aptosService' = r.svc
                /\ serial' = r.serial
                /\ mh' = [mh EXCEPT ![h] =
                            [IdleM EXCEPT !.op = "create", !.pc = "awaitInit",
                                          !.userId = u, !.key = k,
                                          !.name = nm,
                                          !.agentId = nextUuid,
                                          !.rt = IF r.ok THEN r.svc.agent
                                                 ELSE NoRt,
                                          !.built = IF r.ok THEN 1 ELSE 0]]
    /\ UNCHANGED <<agents, agentObjs, userAgents, anthropicKey, llmBuilds>>

\* initializeUserAgent after the await: the rejection of the binding is
\* rethrown, or the record is stored and indexed and its id returned.
InitializeUserAgentResume(h) ==
    /\ UNCHANGED <<convVars, readVars, httpVars>>
    /\ mh[h].op = "create" /\ mh[h].pc = "awaitInit"
    /\ LET a == mh[h].agentId
           u == mh[h].userId
       IN  IF mh[h].rt = NoRt
           THEN /\ resp' = [NoResp EXCEPT !.op = "initializeUserAgent",
                                          !.status = "error"]
                /\ UNCHANGED <<agentObjs, agents, userAgents>>
           ELSE /\ agentObjs' = agentObjs @@
                       (a :> [agent |-> mh[h].rt, privateKey |-> mh[h].key,
                              llmAgent |-> NoLlm, userId |-> u,
                              name |-> AgentName(mh[h].name, a),
                              createdAt |-> now])
                /\ agents' = agents \cup {a}
                /\ userAgents' = IndexAdd(userAgents, u, a)
                /\ resp' = [NoResp EXCEPT !.op = "initializeUserAgent",
                                          !.status = "ok", !.agentId = a]
    /\ mh' = [mh EXCEPT ![h] = IdleM]
    /\ UNCHANGED <<aptosService, anthropicKey, nextUuid, serial, llmBuilds>>

\* processAgentMessage that binds on every call.
NeedsBindAlways(obj) == TRUE

\* processAgentMessage, line 664: the record still lacks its conversational
\* runtime.
NeedsBind(obj) == obj.llmAgent = NoLlm

\* processAgentMessage from its entry to its first await.
ProcessAgentMessageStart(h, a) ==
    /\ UNCHANGED <<convVars, readVars, httpVars>> /\ Silent
    /\ Free(h)
    /\ IF a \notin agents
       THEN UNCHANGED <<aptosService, serial, llmBuilds, mh>>
       ELSE LET obj == agentObjs[a]
                e == IF ~NeedsBind(obj)
                     THEN ApmEnter(aptosService, anthropicKey, serial)
                     ELSE LET r == IF obj.agent = NoRt
                                   THEN InitializeAgent(aptosService, obj.privateKey, serial)
                                   ELSE InitializeLLMAgent(aptosService, anthropicKey, serial)
                          IN  [pc |-> IF ~r.ok THEN "idle"
                                      ELSE IF obj.agent = NoRt THEN "awaitInitAgent"
                                      ELSE "awaitInitLlm",
                               svc |-> r.svc, serial |-> r.serial, usedLlm |-> NoLlm,
                               built |-> IF r.ok THEN 1 ELSE 0]
            IN  /\ e.serial <= MaxObjects
                /\ aptosService' = e.svc
                /\ serial' = e.serial
                /\ llmBuilds' = IF e.pc = "awaitInitLlm"
                                THEN [llmBuilds EXCEPT ![a] = @ + 1] ELSE llmBuilds
                /\ mh' = IF e.pc = "idle" THEN mh
                         ELSE [mh EXCEPT ![h] =
                                 [IdleM EXCEPT !.op = "route", !.pc = e.pc, !.agentId = a,
                                               !.boundAtStart = obj.llmAgent # NoLlm,
                                               !.built = e.built, !.usedLlm = e.usedLlm]]
    /\ UNCHANGED <<agents, agentObjs, userAgents, anthropicKey, nextUuid>>

\* processAgentMessage resumed after one of its awaits on the binder.
ProcessAgentMessageResume(h) ==
    /\ UNCHANGED <<convVars, readVars, httpVars>> /\ Silent
    /\ mh[h].op = "route"
    /\ mh[h].pc \in {"awaitInitAgent", "awaitInitLlm", "apmInit"}
    /\ LET a == mh[h].agentId
       IN  IF mh[h].pc = "awaitInitAgent"
           THEN \* agentData.agent = aptosService.agent; then initializeLLMAgent()
                LET r == InitializeLLMAgent(aptosService, anthropicKey, serial)
                IN  /\ r.serial <= MaxObjects
                    /\ agentObjs' = [agentObjs EXCEPT ![a].agent = aptosService.agent]
                    /\ aptosService' = r.svc
                    /\ serial' = r.serial
                    /\ llmBuilds' = IF r.ok THEN [llmBuilds EXCEPT ![a] = @ + 1]
                                    ELSE llmBuilds
                    /\ mh' = IF r.ok
                             THEN [mh EXCEPT ![h].pc = "awaitInitLlm", ![h].wrote = TRUE,
                                             ![h].built = @ + 1]
                             ELSE [mh EXCEPT ![h] = IdleM]
                    /\ UNCHANGED agents
           ELSE IF mh[h].pc = "awaitInitLlm"
           THEN \* agentData.llmAgent = aptosService.llmAgent;
                \* this.agents.set(agentId, agentData); then the singleton is asked
                LET e == ApmEnter(aptosService, anthropicKey, serial)
                IN  /\ e.serial <= MaxObjects
                    /\ agentObjs' = [agentObjs EXCEPT ![a].llmAgent = aptosService.llmAgent]
                    /\ agents' = agents \cup {a}
                    /\ aptosService' = e.svc
                    /\ serial' = e.serial
                    /\ mh' = IF e.pc = "idle" THEN [mh EXCEPT ![h] = IdleM]
                             ELSE [mh EXCEPT ![h].pc = e.pc, ![h].wrote = TRUE,
                                             ![h].usedLlm = e.usedLlm,
                                             ![h].built = @ + e.built]
                    /\ UNCHANGED llmBuilds
           ELSE \* the singleton built its runtime; it now invokes this.llmAgent
                /\ mh' = [mh EXCEPT ![h].pc = "invoke",
                                    ![h].usedLlm = aptosService.llmAgent]
                /\ UNCHANGED <<agents, agentObjs, aptosService, serial, llmBuilds>>
    /\ UNCHANGED <<userAgents, anthropicKey, nextUuid>>

\* this.llmAgent.invoke(...) settles, with a reply or with an error; either
\* way the call returns.
LlmSettles(h) ==
    /\ UNCHANGED <<convVars, readVars, httpVars>> /\ Silent
    /\ mh[h].op = "route" /\ mh[h].pc = "invoke"
    /\ mh' = [mh EXCEPT ![h] = IdleM]
    /\ UNCHANGED <<agents, agentObjs, userAgents, aptosService, anthropicKey,
                   nextUuid, serial, llmBuilds>>

\* ---- the read projections
NotFound == [found |-> FALSE]

GetAgentWithKey(objs, amap, a) ==
    IF a = 0 \/ a \notin amap THEN NotFound
    ELSE [found |-> TRUE, agentId |-> a, userId |-> objs[a].userId,
          name |-> objs[a].name, initialized |-> objs[a].agent # NoRt,
          llmInitialized |-> objs[a].llmAgent # NoLlm,
          createdAt |-> objs[a].createdAt, privateKey |-> objs[a].privateKey]

\* getAgent: null, or the summary of the record.
GetAgent(objs, amap, a) ==
    IF a = 0 \/ a \notin amap THEN NotFound
    ELSE [found |-> TRUE, agentId |-> a, userId |-> objs[a].userId,
          name |-> objs[a].name, initialized |-> objs[a].agent # NoRt,
          llmInitialized |-> objs[a].llmAgent # NoLlm,
          createdAt |-> objs[a].createdAt]

\* getAgentStatus of an agentId that is given.
GetAgentStatus(objs, amap, a) ==
    IF a \notin amap
    THEN [initialized |-> FALSE, message |-> "Agent not found"]
    ELSE [agentId |-> a, userId |-> objs[a].userId, name |-> objs[a].name,
          initialized |-> TRUE, llmInitialized |-> objs[a].llmAgent # NoLlm,
          createdAt |-> objs[a].createdAt]

\* getUserAgents: the summaries of the listed agents that are in the Map, in
\* list order.
GetUserAgents(objs, amap, ua, u) ==
    IF u \notin DOMAIN ua THEN <<>>
    ELSE LET listed == SelectSeq(ua[u], LAMBDA x : x \in amap)
         IN  [i \in 1..Len(listed) |->
                 [agentId |-> listed[i], name |-> objs[listed[i]].name,
                  initialized |-> objs[listed[i]].agent # NoRt,
                  llmInitialized |-> objs[listed[i]].llmAgent # NoLlm,
                  createdAt |-> objs[listed[i]].createdAt]]

\* getAllAgents: the summaries of all records (their order left out).
GetAllAgents(objs, amap) ==
    {[agentId |-> a, userId |-> objs[a].userId, name |-> objs[a].name,
      initialized |-> objs[a].agent # NoRt,
      llmInitialized |-> objs[a].llmAgent # NoLlm,
      createdAt |-> objs[a].createdAt] : a \in amap}

\* What initializeUserAgent returns for the record it stored.
InitializeUserAgentResult(objs, a) ==
    [agentId |-> a, userId |-> objs[a].userId, name |-> objs[a].name,
     initialized |-> TRUE]

\* ---- updateAgentName: synchronous; throws on a missing id, an unknown
\* agent or an empty name, in this order.
NameMissing(nm) == nm = ""

UpdateAgentName(a, nm) ==
    /\ UNCHANGED <<convVars, readVars, httpVars>>
    /\ LET out(st) == [NoResp EXCEPT !.op = "updateAgentName", !.agentId = a,
                                     !.status = st]
       IN IF a = 0
          THEN /\ resp' = out("Agent ID is required")
               /\ UNCHANGED <<agents, agentObjs>>
          ELSE IF a \notin agents
          THEN /\ resp' = out("Agent not found")
               /\ UNCHANGED <<agents, agentObjs>>
          ELSE IF NameMissing(nm)
          THEN /\ resp' = out("Name is required")
               /\ UNCHANGED <<agents, agentObjs>>
          ELSE /\ agentObjs' = [agentObjs EXCEPT ![a].name = <<nm, "">>]
               /\ agents' = agents \cup {a}
               /\ resp' = out("ok")
    /\ UNCHANGED <<userAgents, aptosService, anthropicKey, nextUuid, serial,
                   llmBuilds, mh>>

\* removeAgent that forgets the owner's list.
DeindexForgotten(ua, u, a) == ua

\* removeAgent, lines 862-874: the agent leaves its owner's list, and the
\* owner's entry goes with its last agent.
Deindex(ua, u, a) ==
    IF u \in DOMAIN ua
    THEN LET updated == SelectSeq(ua[u], LAMBDA x : x # a)
         IN  IF Len(updated) = 0
             THEN [w \in DOMAIN ua \ {u} |-> ua[w]]
             ELSE [ua EXCEPT ![u] = updated]
    ELSE ua

\* removeAgent: synchronous; false when the agent is not in the Map.
RemoveAgent(a) ==
    /\ UNCHANGED <<convVars, readVars, httpVars>> /\ Silent
    /\ IF a \notin agents
       THEN UNCHANGED <<agents, userAgents>>
       ELSE /\ agents' = agents \ {a}
            /\ userAgents' = Deindex(userAgents, agentObjs[a].userId, a)
    /\ UNCHANGED <<agentObjs, aptosService, anthropicKey, nextUuid, serial,
                   llmBuilds, mh>>

\* removeUserAgents: synchronous; every listed agent leaves the Map and the
\* owner's entry is deleted.
RemoveUserAgents(u) ==
    /\ UNCHANGED <<convVars, readVars, httpVars>>
    /\ IF u \notin DOMAIN userAgents
       THEN /\ resp' = [NoResp EXCEPT !.op = "removeUserAgents", !.userId = u,
                                      !.status = "ok", !.count = 0]
            /\ UNCHANGED <<agents, userAgents>>
       ELSE /\ resp' = [NoResp EXCEPT !.op = "removeUserAgents", !.userId = u,
                                      !.status = "ok",
                                      !.count = Cardinality(Range(userAgents[u])
                                                                \cap agents)]
            /\ agents' = agents \ Range(userAgents[u])
            /\ userAgents' = [w \in DOMAIN userAgents \ {u} |-> userAgents[w]]
    /\ UNCHANGED <<agentObjs, aptosService, anthropicKey, nextUuid, serial,
                   llmBuilds, mh>>

\* AptosService.getUserAccount / sendTransaction / createUserWallet: a wallet
\* operation binds the singleton to the caller's key.
WalletInitializeAgent(k) ==
    LET r == InitializeAgent(aptosService, k, serial)
    IN  /\ r.serial <= MaxObjects
        /\ aptosService' = r.svc
        /\ serial' = r.serial
        /\ UNCHANGED <<agents, agentObjs, userAgents, anthropicKey, nextUuid,
                       llmBuilds, mh>>
        /\ UNCHANGED <<convVars, readVars, httpVars>> /\ Silent

\* AptosService.processAgentMessage called on the singleton itself.
SingletonProcessAgentMessage ==
    LET e == ApmEnter(aptosService, anthropicKey, serial)
    IN  /\ e.serial <= MaxObjects
        /\ aptosService' = e.svc
        /\ serial' = e.serial
        /\ UNCHANGED <<agents, agentObjs, userAgents, anthropicKey, nextUuid,
                       llmBuilds, mh>>
        /\ UNCHANGED <<convVars, readVars, httpVars>> /\ Silent

\* ------------------------------------------------------------------------
\* The persisted registry: the Agent and Conversation collections and the
\* controller on top of them.  A database operation is atomic; a request is
\* a chain of them, and requests interleave between any two.  An action is
\* one database operation together with the code that runs on its result up
\* to the next one.  Ids and names are the values left after the controller
\* has sanitised the request.
\* ------------------------------------------------------------------------
CtlHandlers == 1..NumCtlHandlers
ConvAgentIds == 1..MaxAgentIds
AgentIdBodies == ConvAgentIds \cup {0}      \* 0: the request names no agentId
Names == {"n1"}
NameInputs == Names \cup {""}
Pairs == Users \X ConvAgentIds
OidPool == 1..(2 * Cardinality(Pairs) + 2 * NumCtlHandlers)

IdleC == [op |-> "idle", pc |-> "idle", userId |-> "", agentId |-> 0,
          name |-> "", docOid |-> 0, convId |-> 0, n |-> 0, ts |-> 0,
          createdAt |-> 0, removed |-> FALSE, reinserted |-> FALSE,
          found |-> {}]

FreeC(h) ==
    /\ ch[h].pc = "idle"
    /\ \A g \in CtlHandlers : g < h => ch[g].pc # "idle"

Finish(h) == [ch EXCEPT ![h] = IdleC]

\* Model.findOne({ userId, agentId }): the matching documents.
FindOne(db, u, a) == {d \in db : d.userId = u /\ d.agentId = a}

\* Model.findById(id): the matching documents.
FindById(db, oid) == {d \in db : d.oid = oid}

\* A new ObjectId differs from every id a document or a request holds; ids
\* nobody holds any more are indistinguishable from new ones.
HeldOids ==
    {d.oid : d \in agentsDb} \cup {d.oid : d \in convsDb}
        \cup {ch[h].docOid : h \in CtlHandlers}
        \cup {ch[h].convId : h \in CtlHandlers}

NewObjectId ==
    CHOOSE o \in OidPool \ HeldOids : \A p \in OidPool \ HeldOids : o <= p

\* crypto.randomUUID(): an id no document and no request carries.
HeldAgentIds ==
    {d.agentId : d \in agentsDb} \cup {d.agentId : d \in convsDb}
        \cup {ch[h].agentId : h \in CtlHandlers}

RandomUUID == ConvAgentIds \ HeldAgentIds

\* The unique index ({ userId: 1, agentId: 1 }) of the Agent collection.
AgentIndexOpen(db, u, a) == TRUE

AgentIndexAllows(db, u, a) == FindOne(db, u, a) = {}

\* The unique index ({ userId: 1, agentId: 1 }) of the Conversation
\* collection.
ConversationIndexAllows(db, u, a) == FindOne(db, u, a) = {}

MsgInFlight(u, a) ==
    \E h \in CtlHandlers :
        ch[h].op = "msg" /\ ch[h].userId = u /\ ch[h].agentId = a

Clean == [ok |-> TRUE, ns |-> <<>>]
Dirty == [ok |-> FALSE, ns |-> <<>>]

\* What a second reading of the clock in one stretch of code can give: the
\* clock runs on while the code does, up to the last hour of the run.
ClockReads == {t \in now..MaxClock : t <= now + 1}

\* ---- initializeAgent -> createOrUpdateAgent
\* A new document takes lastActive from `new Date()` in the constructor's
\* argument and then createdAt from the schema default Date.now.
CtlInitializeAgent(h, u, supplied, name) ==
    /\ FreeC(h)
    /\ IF u = "" \/ name = ""
       THEN UNCHANGED <<ch, now>>                                \* 400
       ELSE \E a \in (IF supplied # 0 THEN {supplied} ELSE RandomUUID) :
              LET found == FindOne(agentsDb, u, a)
                  req == [IdleC EXCEPT !.op = "init", !.userId = u,
                                       !.agentId = a, !.name = name,
                                       !.ts = now]
              IN IF found = {}
                 THEN \E t \in ClockReads :
                        /\ ch' = [ch EXCEPT ![h] =
                                    [req EXCEPT !.pc = "insert",
                                                !.createdAt = t]]
                        /\ now' = t
                 ELSE /\ \E d \in found :
                           ch' = [ch EXCEPT ![h] =
                                    [req EXCEPT !.pc = "update",
                                                !.docOid = d.oid]]
                      /\ UNCHANGED now
    /\ UNCHANGED <<agentsDb, convsDb, arrivals, seqCalls>>
    /\ UNCHANGED <<memVars, readVars, httpVars>> /\ Silent

CreateOrUpdateAgentSave(h) ==
    /\ ch[h].op = "init"
    /\ LET r == ch[h] IN
       IF r.pc = "update"
       THEN /\ agentsDb' = {IF d.oid = r.docOid
                            THEN [d EXCEPT !.name = r.name, !.lastActive = r.ts]
                            ELSE d : d \in agentsDb}
            /\ ch' = Finish(h)
       ELSE IF AgentIndexAllows(agentsDb, r.userId, r.agentId)
       THEN /\ agentsDb' = agentsDb \cup
                   {[oid |-> NewObjectId, userId |-> r.userId,
                     agentId |-> r.agentId, name |-> r.name,
                     createdAt |-> r.createdAt, lastActive |-> r.ts]}
            /\ ch' = [g \in CtlHandlers |->
                        IF g = h THEN IdleC
                        ELSE IF /\ ch[g].op = "remove"
                                /\ ch[g].userId = r.userId
                                /\ ch[g].agentId = r.agentId
                             THEN [ch[g] EXCEPT !.reinserted = TRUE]
                             ELSE ch[g]]
       ELSE /\ ch' = Finish(h)                        \* duplicate key: 500
            /\ UNCHANGED agentsDb
    /\ UNCHANGED <<convsDb, now, arrivals, seqCalls>>
    /\ UNCHANGED <<memVars, readVars, httpVars>> /\ Silent

\* ---- processMessage
UserMessage(n) == [role |-> "user", n |-> n]
AssistantMessage(n) == [role |-> "assistant", n |-> n]

PushFront(messages, m) == <<m>> \o messages

\* $push: { messages: ... }
Push(messages, m) == Append(messages, m)

\* Conversation.findByIdAndUpdate(conversationId, { $push ... })
AddMessageToConversation(db, convId, m) ==
    {IF d.oid = convId THEN [d EXCEPT !.messages = Push(@, m)] ELSE d :
        d \in db}

\* getConversationMessages: the messages it returns for a stored log.
GetConversationMessages(messages, limit) ==
    IF limit # 0 /\ Len(messages) > limit
    THEN SubSeq(messages, Len(messages) - limit + 1, Len(messages))
    ELSE messages

\* The request failed: its call is not one of a clean sequence.
Fails(h) ==
    /\ ch' = Finish(h)
    /\ seqCalls' = [seqCalls EXCEPT ![<<ch[h].userId, ch[h].agentId>>] = Dirty]
    /\ resp' = [NoResp EXCEPT !.op = "msg", !.status = "500",
                              !.appended = (ch[h].pc = "reply")]

CtlProcessMessage(h, u, a) ==
    /\ FreeC(h)
    /\ IF u = "" \/ a = 0 \/ FindOne(agentsDb, u, a) = {}
       THEN /\ UNCHANGED <<arrivals, seqCalls, ch>>
            /\ resp' = IF u = "" \/ a = 0
                       THEN [NoResp EXCEPT !.op = "msg", !.status = "400"]
                       ELSE [NoResp EXCEPT !.op = "msg", !.status = "404",
                                           !.userId = u, !.agentId = a]
       ELSE /\ arrivals < MaxArrivals
            /\ Silent
            /\ arrivals' = arrivals + 1
            /\ ch' = [ch EXCEPT ![h] =
                        [IdleC EXCEPT !.op = "msg", !.pc = "activity",
                                      !.userId = u, !.agentId = a,
                                      !.n = arrivals + 1, !.ts = now]]
            /\ seqCalls' = IF MsgInFlight(u, a)
                           THEN [seqCalls EXCEPT ![<<u, a>>] = Dirty]
                           ELSE seqCalls
    /\ UNCHANGED <<agentsDb, convsDb, now>>
    /\ UNCHANGED <<memVars, readVars, httpVars>>

\* A direct call of updateAgentActivity(userId, agentId): `new Date()` is
\* read when the update is issued.
UpdateAgentActivityCall(h, u, a) ==
    /\ FreeC(h)
    /\ ch' = [ch EXCEPT ![h] =
                [IdleC EXCEPT !.op = "touch", !.pc = "activity",
                              !.userId = u, !.agentId = a, !.ts = now]]
    /\ Silent
    /\ UNCHANGED <<agentsDb, convsDb, now, arrivals, seqCalls>>
    /\ UNCHANGED <<memVars, readVars, httpVars>>

\* Agent.findOneAndUpdate({ userId, agentId }, { lastActive })
UpdateAgentActivity(h) ==
    /\ ch[h].op \in {"msg", "touch"} /\ ch[h].pc = "activity"
    /\ agentsDb' = {IF d.userId = ch[h].userId /\ d.agentId = ch[h].agentId
                    THEN [d EXCEPT !.lastActive = ch[h].ts]
                    ELSE d : d \in agentsDb}
    /\ ch' = IF ch[h].op = "touch" THEN Finish(h)
             ELSE [ch EXCEPT ![h].pc = "getConv", ![h].ts = now]
    /\ UNCHANGED <<convsDb, now, arrivals, seqCalls>>
    /\ UNCHANGED <<memVars, readVars, httpVars>> /\ Silent

GetOrCreateConversation(h) ==
    /\ ch[h].op = "msg"
    /\ LET r == ch[h]
           found == FindOne(convsDb, r.userId, r.agentId)
       IN IF r.pc = "getConv"
          THEN /\ IF found = {}
                  THEN ch' = [ch EXCEPT ![h].pc = "saveConv"]
                  ELSE \E d \in found :
                         ch' = [ch EXCEPT ![h].pc = "addUser",
                                          ![h].convId = d.oid]
               /\ UNCHANGED <<convsDb, seqCalls>>
               /\ Silent
          ELSE /\ r.pc = "saveConv"
               /\ IF ConversationIndexAllows(convsDb, r.userId, r.agentId)
                  THEN /\ convsDb' = convsDb \cup
                              {[oid |-> NewObjectId, userId |-> r.userId,
                                agentId |-> r.agentId, messages |-> <<>>]}
                       /\ ch' = [ch EXCEPT ![h].pc = "addUser",
                                           ![h].convId = NewObjectId]
                       /\ UNCHANGED seqCalls
                       /\ Silent
                  ELSE /\ Fails(h)                    \* duplicate key: 500
                       /\ UNCHANGED convsDb
    /\ UNCHANGED <<agentsDb, now, arrivals>>
    /\ UNCHANGED <<memVars, readVars, httpVars>>

AddUserMessage(h) ==
    /\ ch[h].op = "msg" /\ ch[h].pc = "addUser"
    /\ IF FindById(convsDb, ch[h].convId) = {}
       THEN /\ Fails(h)                       \* 'Conversation not found'
            /\ UNCHANGED convsDb
       ELSE /\ convsDb' = AddMessageToConversation(convsDb, ch[h].convId,
                                                   UserMessage(ch[h].n))
            /\ ch' = [ch EXCEPT ![h].pc = "reply"]
            /\ UNCHANGED seqCalls
            /\ Silent
    /\ UNCHANGED <<agentsDb, now, arrivals>>
    /\ UNCHANGED <<memVars, readVars, httpVars>>

\* The history read and the model call failed, or the reply cannot be
\* stored.
ReplyFails(h) ==
    /\ ch[h].op = "msg" /\ ch[h].pc = "reply"
    /\ Fails(h)
    /\ UNCHANGED <<agentsDb, convsDb, now, arrivals>>
    /\ UNCHANGED <<memVars, readVars, httpVars>>

\* The model answered and the reply is stored.
ReplyArrives(h) ==
    /\ ch[h].op = "msg" /\ ch[h].pc = "reply"
    /\ FindById(convsDb, ch[h].convId) # {}
    /\ convsDb' = AddMessageToConversation(convsDb, ch[h].convId,
                                           AssistantMessage(ch[h].n))
    /\ ch' = Finish(h)
    /\ seqCalls' =
         LET p == <<ch[h].userId, ch[h].agentId>> IN
         IF seqCalls[p].ok
         THEN [seqCalls EXCEPT ![p].ns = Append(@, ch[h].n)]
         ELSE seqCalls
    /\ resp' = [NoResp EXCEPT !.op = "msg", !.status = "200",
                              !.appended = TRUE]
    /\ UNCHANGED <<agentsDb, now, arrivals>>
    /\ UNCHANGED <<memVars, readVars, httpVars>>

HistoryCap == 100

Min(a, b) == IF a <= b THEN a ELSE b

SanitizedLimit(limit) == Min(limit, HistoryCap)

\* ---- removeAgent
\* deleteMany that deletes nothing.
DeleteNoConversations(db, u, a) == db

\* Conversation.deleteMany({ userId, agentId })
DeleteConversationsByAgentId(db, u, a) == db \ FindOne(db, u, a)

CtlRemoveAgent(h, u, a) ==
    /\ FreeC(h)
    /\ IF u = "" \/ a = 0
       THEN /\ UNCHANGED <<agentsDb, ch>>
            /\ resp' = [NoResp EXCEPT !.op = "remove", !.status = "400"]
       ELSE /\ Silent
            /\ LET found == FindOne(agentsDb, u, a)
                   req == [IdleC EXCEPT !.op = "remove", !.pc = "delConv",
                                        !.userId = u, !.agentId = a]
               IN IF found = {}
                  THEN /\ ch' = [ch EXCEPT ![h] = req]
                       /\ UNCHANGED agentsDb
                  ELSE \E d \in found :
                         /\ agentsDb' = agentsDb \ {d}
                         /\ ch' = [ch EXCEPT ![h] =
                                     [req EXCEPT !.removed = TRUE]]
    /\ UNCHANGED <<convsDb, now, arrivals, seqCalls>>
    /\ UNCHANGED <<memVars, readVars, httpVars>>

CtlRemoveAgentCascade(h) ==
    /\ ch[h].op = "remove" /\ ch[h].pc = "delConv"
    /\ convsDb' = DeleteConversationsByAgentId(convsDb, ch[h].userId,
                                               ch[h].agentId)
    /\ ch' = [ch EXCEPT ![h].pc = "respond"]
    /\ seqCalls' = [seqCalls EXCEPT ![<<ch[h].userId, ch[h].agentId>>] =
                      IF MsgInFlight(ch[h].userId, ch[h].agentId)
                      THEN Dirty ELSE Clean]
    /\ UNCHANGED <<agentsDb, now, arrivals>>
    /\ UNCHANGED <<memVars, readVars, httpVars>> /\ Silent

\* res.status(200) / res.status(404): the removal completes.
CtlRemoveAgentRespond(h) ==
    /\ ch[h].op = "remove" /\ ch[h].pc = "respond"
    /\ ch' = Finish(h)
    /\ resp' = [NoResp EXCEPT !.op = "remove",
                              !.status = IF ch[h].removed THEN "200"
                                         ELSE "404"]
    /\ UNCHANGED <<agentsDb, convsDb, now, arrivals, seqCalls>>
    /\ UNCHANGED <<memVars, readVars, httpVars>>

\* ---- the administrative requests
\* The methods of the AgentService the controller instantiates.
AgentServiceMethods ==
    {"createOrUpdateAgent", "getAgent", "getAllAgentsForUser", "removeAgent",
     "updateAgentActivity", "removeInactiveAgents", "countAllAgents",
     "getAgentStats"}

\* Calling a method the object does not have throws a TypeError.
Throws(method) == method \notin AgentServiceMethods

NoHours == -1
DefaultMaxAgeHours == 24
HoursArgs == {NoHours} \cup (0..MaxHours)

\* hours ? parseInt(hours, 10) : 24
MaxAgeHours(hours) == IF hours = NoHours THEN DefaultMaxAgeHours ELSE hours

\* cleanupInactiveAgents: the service call throws and the catch answers 500.
CtlCleanupInactiveAgents(hours) ==
    /\ Throws("cleanupInactiveAgents")
    /\ resp' = [NoResp EXCEPT !.op = "cleanup", !.hours = MaxAgeHours(hours),
                              !.status = "500"]
    /\ UNCHANGED <<memVars, convVars, readVars, httpVars>>

\* removeUserAgents: 400 without a userId; else the service call throws and
\* the catch answers 500.
CtlRemoveUserAgents(u) ==
    /\ u # "" => Throws("removeUserAgents")
    /\ resp' = [NoResp EXCEPT !.op = "ctlRemoveUserAgents", !.userId = u,
                              !.status = IF u = "" THEN "400" ELSE "500"]
    /\ UNCHANGED <<memVars, convVars, readVars, httpVars>>

\* updateAgentName: 400 without an agentId or a name; else the service call
\* throws a TypeError, whose message does not include 'Agent not found'.
CtlUpdateAgentName(a, nm) ==
    /\ (a # 0 /\ nm # "") => Throws("updateAgentName")
    /\ resp' = [NoResp EXCEPT !.op = "ctlUpdateAgentName", !.agentId = a,
                              !.name = nm,
                              !.status = IF a = 0 \/ nm = "" THEN "400"
                                         ELSE "500"]
    /\ UNCHANGED <<memVars, convVars, readVars, httpVars>>

\* ---- AgentService.removeInactiveAgents(cutoffDate)
\* { lastActive: { $lt: cutoffDate } }
Inactive(db, cutoff) == {d \in db : d.lastActive < cutoff}

\* Agent.find: the list kept for the report.
RemoveInactiveAgentsFind(h, cutoff) ==
    /\ FreeC(h)
    /\ ch' = [ch EXCEPT ![h] =
                [IdleC EXCEPT !.op = "sweep", !.pc = "deleteMany",
                              !.ts = cutoff,
                              !.found = Inactive(agentsDb, cutoff)]]
    /\ Silent
    /\ UNCHANGED <<agentsDb, convsDb, now, arrivals, seqCalls>>
    /\ UNCHANGED <<memVars, readVars, httpVars>>

\* Agent.deleteMany and the return of { count, inactiveAgents }.
RemoveInactiveAgentsDelete(h) ==
    /\ ch[h].op = "sweep" /\ ch[h].pc = "deleteMany"
    /\ agentsDb' = agentsDb \ Inactive(agentsDb, ch[h].ts)
    /\ resp' = [NoResp EXCEPT !.op = "removeInactiveAgents", !.status = "ok",
                              !.count = Cardinality(Inactive(agentsDb,
                                                             ch[h].ts))]
    /\ ch' = Finish(h)
    /\ UNCHANGED <<convsDb, now, arrivals, seqCalls>>
    /\ UNCHANGED <<memVars, readVars, httpVars>>

\* An hour passes.
Tick ==
    /\ now < MaxClock
    /\ now' = now + 1
    /\ Silent
    /\ UNCHANGED <<agentsDb, convsDb, arrivals, seqCalls, ch>>
    /\ UNCHANGED <<memVars, readVars, httpVars>>

\* ---- the read of a stored log

\* ---- getAgentConversation
DefaultLimit == 50

\* getAgentConversation up to agentService.getAgent.
CtlGetAgentConversation(h, u, a) ==
    /\ FreeC(h)
    /\ IF u = "" \/ a = 0 \/ FindOne(agentsDb, u, a) = {}
       THEN /\ UNCHANGED ch
            /\ resp' = IF u = "" \/ a = 0
                       THEN [NoResp EXCEPT !.op = "history", !.status = "400"]
                       ELSE [NoResp EXCEPT !.op = "history", !.status = "404",
                                           !.userId = u, !.agentId = a]
       ELSE /\ ch' = [ch EXCEPT ![h] =
                        [IdleC EXCEPT !.op = "history", !.pc = "findConv",
                                      !.userId = u, !.agentId = a]]
            /\ Silent
    /\ UNCHANGED <<agentsDb, convsDb, now, arrivals, seqCalls>>
    /\ UNCHANGED <<memVars, readVars, httpVars>>

\* getConversationByUserAndAgentId: no conversation is answered with an
\* empty list.
GetConversationByUserAndAgentId(h) ==
    /\ ch[h].op = "history" /\ ch[h].pc = "findConv"
    /\ LET found == FindOne(convsDb, ch[h].userId, ch[h].agentId)
       IN IF found = {}
          THEN /\ ch' = Finish(h)
               /\ resp' = [NoResp EXCEPT !.op = "history", !.status = "200"]
          ELSE /\ \E d \in found :
                     ch' = [ch EXCEPT ![h].pc = "readMsgs",
                                      ![h].convId = d.oid]
               /\ Silent
    /\ UNCHANGED <<agentsDb, convsDb, now, arrivals, seqCalls>>
    /\ UNCHANGED <<memVars, readVars, httpVars>>

\* getConversationMessages(conversation._id, sanitizedLimit), limit left at
\* its default.
ReadConversationMessages(h) ==
    /\ ch[h].op = "history" /\ ch[h].pc = "readMsgs"
    /\ LET found == FindById(convsDb, ch[h].convId)
           out == [NoResp EXCEPT !.op = "history"]
       IN IF found = {}
          THEN resp' = [out EXCEPT !.status = "500"]
          ELSE \E d \in found :
                 resp' = [out EXCEPT !.status = "200",
                            !.messages = GetConversationMessages(
                                d.messages, SanitizedLimit(DefaultLimit))]
    /\ ch' = Finish(h)
    /\ UNCHANGED <<agentsDb, convsDb, now, arrivals, seqCalls>>
    /\ UNCHANGED <<memVars, readVars, httpVars>>

\* What a history request returns when nothing runs between its steps.
History(adb, cdb, u, a) ==
    IF FindOne(adb, u, a) = {} THEN [status |-> "404", messages |-> <<>>]
    ELSE IF FindOne(cdb, u, a) = {} THEN [status |-> "200", messages |-> <<>>]
    ELSE LET d == CHOOSE c \in FindOne(cdb, u, a) : TRUE
         IN  [status |-> "200",
              messages |-> GetConversationMessages(
                               d.messages, SanitizedLimit(DefaultLimit))]

\* ---- clearAgentConversation
\* clearAgentConversation up to agentService.getAgent.
CtlClearAgentConversation(h, u, a) ==
    /\ FreeC(h)
    /\ IF u = "" \/ a = 0 \/ FindOne(agentsDb, u, a) = {}
       THEN /\ UNCHANGED ch
            /\ resp' = IF u = "" \/ a = 0
                       THEN [NoResp EXCEPT !.op = "clear", !.status = "400"]
                       ELSE [NoResp EXCEPT !.op = "clear", !.status = "404",
                                           !.userId = u, !.agentId = a]
       ELSE /\ ch' = [ch EXCEPT ![h] =
                        [IdleC EXCEPT !.op = "clear", !.pc = "delConv",
                                      !.userId = u, !.agentId = a]]
            /\ Silent
    /\ UNCHANGED <<agentsDb, convsDb, now, arrivals, seqCalls>>
    /\ UNCHANGED <<memVars, readVars, httpVars>>

\* deleteConversationsByAgentId and the 200 answer.
ClearAgentConversationDelete(h) ==
    /\ ch[h].op = "clear" /\ ch[h].pc = "delConv"
    /\ convsDb' = DeleteConversationsByAgentId(convsDb, ch[h].userId,
                                               ch[h].agentId)
    /\ ch' = Finish(h)
    /\ seqCalls' = [seqCalls EXCEPT ![<<ch[h].userId, ch[h].agentId>>] =
                      IF MsgInFlight(ch[h].userId, ch[h].agentId)
                      THEN Dirty ELSE Clean]
    /\ resp' = [NoResp EXCEPT !.op = "clear", !.status = "200",
                              !.count = Cardinality(FindOne(convsDb,
                                            ch[h].userId, ch[h].agentId))]
    /\ UNCHANGED <<agentsDb, now, arrivals>>
    /\ UNCHANGED <<memVars, readVars, httpVars>>

GetAgentConversation ==
    /\ ~readDone
    /\ readOut' = GetConversationMessages(readLog, SanitizedLimit(readLimit))
    /\ readDone' = TRUE
    /\ UNCHANGED <<readLog, readLimit>>
    /\ UNCHANGED <<memVars, convVars, httpVars>> /\ Silent

LogMessages ==
    {UserMessage(n) : n \in 1..MaxArrivals}
        \cup {AssistantMessage(n) : n \in 1..MaxArrivals}

Logs == UNION {[1..k -> LogMessages] : k \in 0..MaxLogLen}

\* ------------------ the per-user controller: processMessage and its stream
NumStreamHandlers == 1   \* per-user message requests in flight at once
MaxEvents == 2           \* events the upstream stream yields to one request
StreamHandlers == 1..NumStreamHandlers

\* A text is a sequence of characters; the empty string is <<>>.
Chars == {"a", "b"}
Texts == {<<>>} \cup {<<c>> : c \in Chars}

\* An event of llmAgent.streamEvents: its name and its data.chunk.content, a
\* string (one part) or an array of parts with a text each.
EventNames == {"on_chat_model_stream", "on_tool_start"}
Contents == UNION {[1..k -> Texts] : k \in 0..2}
Events == [event : EventNames, content : Contents]

\* The texts processMessage writes for one event: the parts of a chat-model
\* chunk that are not empty, in order.
Writes(ev) ==
    IF ev.event = "on_chat_model_stream"
    THEN SelectSeq(ev.content, LAMBDA t : t # <<>>)
    ELSE <<>>

\* res.write(`data: ${text}\n\n`): the frame that carries one text.
Frame(t) == [data |-> t]

IdleS == [pc |-> "idle", userId |-> "", key |-> "", steps |-> FALSE,
          rt |-> NoRt, n |-> 0]

\* A response nothing has been done with.
NoRes == [contentType |-> "", headersSent |-> FALSE, status |-> 0,
          chunks |-> <<>>, jsonCalls |-> 0, endCalls |-> 0, ended |-> FALSE,
          thrown |-> FALSE]

\* res.status(code).json(body): sends the one response; on a response whose
\* headers are out, send throws ERR_HTTP_HEADERS_SENT and nothing is closed.
Json(r, code) ==
    IF r.headersSent
    THEN [r EXCEPT !.jsonCalls = @ + 1, !.thrown = TRUE]
    ELSE [r EXCEPT !.jsonCalls = @ + 1, !.status = code,
                   !.contentType = IF @ = "" THEN "application/json" ELSE @,
                   !.headersSent = TRUE, !.ended = TRUE]

FreeS(h) ==
    /\ sh[h].pc = "idle"
    /\ \A g \in StreamHandlers : g < h => sh[g].pc # "idle"

\* this.userAgents.set(userId, info)
SetUserAgent(ua, u, info) ==
    [x \in DOMAIN ua \cup {u} |-> IF x = u THEN info ELSE ua[x]]

\* processUserMessage from its entry to its first await: the user has no
\* agent, or the conversational runtime is built for the user, or
\* aptosService.processAgentMessage is entered.
PumEnter(ua, svc, apiKey, n, u) ==
    IF u \notin DOMAIN ua
    THEN [pc |-> "notInitialized", svc |-> svc, serial |-> n]
    ELSE IF ua[u].llmAgent = NoLlm
    THEN LET r == InitializeLLMAgent(svc, apiKey, n)
         IN  [pc |-> IF r.ok THEN "awaitLlm" ELSE "threw", svc |-> r.svc,
              serial |-> r.serial]
    ELSE LET e == ApmEnter(svc, apiKey, n)
         IN  [pc |-> IF e.pc = "idle" THEN "threw" ELSE e.pc, svc |-> e.svc,
              serial |-> e.serial]

\* The request answers with a JSON body and returns.
Answer(h, code) ==
    /\ res' = [res EXCEPT ![h] = Json(@, code)]
    /\ sh' = [sh EXCEPT ![h].pc = "idle"]

\* The controller calls processUserMessage for the request in slot h, whose
\* response is r so far, with the registry ua.
CallProcessUserMessage(h, s, r, ua) ==
    LET e == PumEnter(ua, aptosService, anthropicKey, serial, s.userId)
    IN  /\ e.serial <= MaxObjects
        /\ aptosService' = e.svc
        /\ serial' = e.serial
        /\ perUserAgents' = ua
        /\ IF e.pc = "notInitialized"
           THEN /\ res' = [res EXCEPT ![h] = Json(r, 400)]
                /\ sh' = [sh EXCEPT ![h] = [s EXCEPT !.pc = "idle"]]
           ELSE IF e.pc = "threw"
           THEN /\ res' = [res EXCEPT ![h] = Json(r, 500)]
                /\ sh' = [sh EXCEPT ![h] = [s EXCEPT !.pc = "idle"]]
           ELSE /\ res' = [res EXCEPT ![h] = r]
                /\ sh' = [sh EXCEPT ![h] = [s EXCEPT !.pc = e.pc]]

\* processMessage from its entry to its first await.
PerUserProcessMessage(h, u, messages, k, steps) ==
    /\ FreeS(h)
    /\ UNCHANGED <<convVars, readVars, limitVars>> /\ Silent
    /\ UNCHANGED <<agents, agentObjs, userAgents, anthropicKey, nextUuid,
                   llmBuilds, mh>>
    /\ LET s == [IdleS EXCEPT !.userId = u, !.key = k, !.steps = steps]
       IN  IF ~messages \/ u = ""
           THEN /\ res' = [res EXCEPT ![h] = Json(NoRes, 400)]
                /\ sh' = [sh EXCEPT ![h] = s]
                /\ UNCHANGED <<aptosService, serial, perUserAgents>>
           ELSE IF k # "" /\ u \notin DOMAIN perUserAgents
           THEN LET r == InitializeAgent(aptosService, k, serial)
                IN  /\ r.serial <= MaxObjects
                    /\ aptosService' = r.svc
                    /\ serial' = r.serial
                    /\ sh' = [sh EXCEPT ![h] =
                                [s EXCEPT !.pc = "awaitInit",
                                          !.rt = IF r.ok THEN r.svc.agent
                                                 ELSE NoRt]]
                    /\ res' = [res EXCEPT ![h] = NoRes]
                    /\ UNCHANGED perUserAgents
           ELSE CallProcessUserMessage(h, s, NoRes, perUserAgents)

\* initializeUserAgent of the per-user service after its await: the rejection
\* is rethrown to the outer catch, or the user's agent is stored and
\* processUserMessage is called.
PerUserInitializeResume(h) ==
    /\ sh[h].pc = "awaitInit"
    /\ UNCHANGED <<convVars, readVars, limitVars>> /\ Silent
    /\ UNCHANGED <<agents, agentObjs, userAgents, anthropicKey, nextUuid,
                   llmBuilds, mh>>
    /\ IF sh[h].rt = NoRt
       THEN /\ Answer(h, 500)
            /\ UNCHANGED <<aptosService, serial, perUserAgents>>
       ELSE CallProcessUserMessage(h, sh[h], res[h],
                SetUserAgent(perUserAgents, sh[h].userId,
                             [agent |-> sh[h].rt, privateKey |-> sh[h].key,
                              llmAgent |-> NoLlm]))

\* The conversational runtime is built: processUserMessage keeps the
\* singleton's runtime for the user and enters processAgentMessage, or
\* processAgentMessage goes on to call the runtime.
PerUserAwaitResume(h) ==
    /\ sh[h].pc \in {"awaitLlm", "apmInit"}
    /\ UNCHANGED <<convVars, readVars, limitVars>> /\ Silent
    /\ UNCHANGED <<agents, agentObjs, userAgents, anthropicKey, nextUuid,
                   llmBuilds, mh>>
    /\ IF sh[h].pc = "apmInit"
       THEN /\ sh' = [sh EXCEPT ![h].pc = "invoke"]
            /\ UNCHANGED <<aptosService, serial, perUserAgents, res>>
       ELSE LET u == sh[h].userId
                e == ApmEnter(aptosService, anthropicKey, serial)
            IN  /\ e.serial <= MaxObjects
                /\ perUserAgents' =
                     SetUserAgent(perUserAgents, u,
                                  [perUserAgents[u] EXCEPT
                                     !.llmAgent = aptosService.llmAgent])
                /\ aptosService' = e.svc
                /\ serial' = e.serial
                /\ IF e.pc = "idle"
                   THEN Answer(h, 500)
                   ELSE /\ sh' = [sh EXCEPT ![h].pc = e.pc]
                        /\ UNCHANGED res

\* llmAgent.invoke or llmAgent.streamEvents rejects.
UpstreamFails(h) ==
    /\ sh[h].pc = "invoke"
    /\ Answer(h, 500)
    /\ UNCHANGED <<convVars, readVars, limitVars>> /\ Silent
    /\ UNCHANGED <<memVars, perUserAgents>>

\* The runtime returns: the result goes out as JSON, or the event-stream
\* headers are set and the loop over the stream starts.
UpstreamReturns(h) ==
    /\ sh[h].pc = "invoke"
    /\ IF sh[h].steps
       THEN /\ res' = [res EXCEPT ![h].contentType = "text/event-stream"]
            /\ sh' = [sh EXCEPT ![h].pc = "streaming"]
       ELSE Answer(h, 200)
    /\ UNCHANGED <<convVars, readVars, limitVars>> /\ Silent
    /\ UNCHANGED <<memVars, perUserAgents>>

\* One turn of `for await`: the event's texts are written.
StreamYields(h, ev) ==
    /\ sh[h].pc = "streaming"
    /\ sh[h].n < MaxEvents
    /\ LET w == Writes(ev)
       IN  res' = [res EXCEPT
                     ![h].chunks = @ \o [i \in 1..Len(w) |-> Frame(w[i])],
                     ![h].headersSent = @ \/ w # <<>>,
                     ![h].status = IF w # <<>> THEN 200 ELSE @]
    /\ sh' = [sh EXCEPT ![h].n = @ + 1]
    /\ UNCHANGED <<convVars, readVars, limitVars>> /\ Silent
    /\ UNCHANGED <<memVars, perUserAgents>>

\* The stream is exhausted: res.end().
StreamEnds(h) ==
    /\ sh[h].pc = "streaming"
    /\ res' = [res EXCEPT ![h].endCalls = @ + 1, ![h].ended = TRUE,
                          ![h].headersSent = TRUE, ![h].status = 200]
    /\ sh' = [sh EXCEPT ![h].pc = "idle"]
    /\ UNCHANGED <<convVars, readVars, limitVars>> /\ Silent
    /\ UNCHANGED <<memVars, perUserAgents>>

\* The stream throws: the inner catch rethrows what is not 'User agent not
\* initialized' and the outer catch answers res.status(500).json(...).
StreamThrows(h) ==
    /\ sh[h].pc = "streaming"
    /\ Answer(h, 500)
    /\ UNCHANGED <<convVars, readVars, limitVars>> /\ Silent
    /\ UNCHANGED <<memVars, perUserAgents>>

InitStream ==
    /\ perUserAgents = <<>>
    /\ sh = [h \in StreamHandlers |-> IdleS]
    /\ res = [h \in StreamHandlers |-> NoRes]

NextStream ==
    \/ \E h \in StreamHandlers, u \in UserInputs, messages \in BOOLEAN,
          k \in KeyInputs, steps \in BOOLEAN :
          PerUserProcessMessage(h, u, messages, k, steps)
    \/ \E h \in StreamHandlers : PerUserInitializeResume(h)
    \/ \E h \in StreamHandlers : PerUserAwaitResume(h)
    \/ \E h \in StreamHandlers : UpstreamFails(h)
    \/ \E h \in StreamHandlers : UpstreamReturns(h)
    \/ \E h \in StreamHandlers, ev \in Events : StreamYields(h, ev)
    \/ \E h \in StreamHandlers : StreamEnds(h)
    \/ \E h \in StreamHandlers : StreamThrows(h)

\* ------------------------------------ securityMiddleware and the route table
GeneralMax == 100     \* rateLimiter: max
SensitiveMax == 20    \* sensitiveRateLimiter: max

Ips == {"ip1"}
Owners == {"u1"}
Anonymous == "anonymous"
LimitKeys == Ips \X (Owners \cup {Anonymous})

\* The routes a caller reaches on behalf of an owner.
Endpoints == {"initialize", "message", "listByUser", "removeUser", "status",
              "rename", "remove"}

\* Agent creation and agent removal.
SensitiveEndpoints == {"initialize", "removeUser", "remove"}

\* req.body.userId of a request to the route on behalf of owner u: the two
\* POST routes carry it; "" is undefined.
BodyUserId(e, u) == IF e \in {"initialize", "message"} THEN u ELSE ""

\* req.params.userId when the middleware of router.use runs: no route has
\* been matched yet, so the parameters of '/user/:userId' are not there.
ParamsUserId(e, u) == ""

\* keyGenerator of rateLimiter: `${req.ip}-${userId}`.
KeyGenerator(ip, body, params) ==
    <<ip, IF body # "" THEN body ELSE IF params # "" THEN params
          ELSE Anonymous>>

\* The limiters in front of every route.
RouterUse == {"rateLimiter"}

\* The limiters a request to the route passes: those of router.use and those
\* named on the route itself, which names validateRequest only.
Limiters(e) == RouterUse

Bump(n, max) == IF n < max + 1 THEN n + 1 ELSE n

\* A request by caller ip on behalf of owner u reaches the router: each
\* limiter counts it under its key and the first one over its max answers
\* 429; otherwise the request goes on to the route.
Admission(ip, e, u) ==
    LET key == KeyGenerator(ip, BodyUserId(e, u), ParamsUserId(e, u))
        general == "rateLimiter" \in Limiters(e)
        sensitive == "sensitiveRateLimiter" \in Limiters(e)
        over == general /\ hits[key] >= GeneralMax
        overSensitive == sensitive /\ sensitiveHits[key] >= SensitiveMax
    IN  /\ hits' = IF general
                   THEN [hits EXCEPT ![key] = Bump(@, GeneralMax)]
                   ELSE hits
        /\ sensitiveHits' =
             IF sensitive /\ ~over
             THEN [sensitiveHits EXCEPT ![key] = Bump(@, SensitiveMax)]
             ELSE sensitiveHits
        /\ IF over \/ overSensitive
           THEN /\ resp' = [NoResp EXCEPT !.op = "admission",
                                          !.status = "429"]
                /\ UNCHANGED admitted
           ELSE /\ resp' = [NoResp EXCEPT !.op = "admission",
                                          !.status = "next"]
                /\ admitted' =
                     IF e \in SensitiveEndpoints
                     THEN [admitted EXCEPT ![<<ip, u>>] =
                             Bump(@, SensitiveMax)]
                     ELSE admitted
        /\ UNCHANGED <<memVars, convVars, readVars, streamVars>>

\* The 15-minute window of rateLimiter ends.
WindowResets ==
    /\ hits' = [k \in LimitKeys |-> 0]
    /\ UNCHANGED <<sensitiveHits, admitted>>
    /\ UNCHANGED <<memVars, convVars, readVars, streamVars>> /\ Silent

\* The one-hour window of sensitiveRateLimiter ends, and with it a
\* 15-minute window.
SensitiveWindowResets ==
    /\ hits' = [k \in LimitKeys |-> 0]
    /\ sensitiveHits' = [k \in LimitKeys |-> 0]
    /\ admitted' = [p \in Ips \X Owners |-> 0]
    /\ UNCHANGED <<memVars, convVars, readVars, streamVars>> /\ Silent

InitLimit ==
    /\ hits = [k \in LimitKeys |-> 0]
    /\ sensitiveHits = [k \in LimitKeys |-> 0]
    /\ admitted = [p \in Ips \X Owners |-> 0]

NextLimit ==
    \/ \E ip \in Ips, e \in Endpoints, u \in Owners : Admission(ip, e, u)
    \/ WindowResets
    \/ SensitiveWindowResets

InitHttp == InitStream /\ InitLimit

\* ------------------------------------------------------- specifications
InitMem ==
    /\ agents = {}
    /\ agentObjs = <<>>
    /\ userAgents = <<>>
    /\ aptosService = [agent |-> NoRt, llmAgent |-> NoLlm]
    /\ anthropicKey \in BOOLEAN
    /\ nextUuid = 1
    /\ serial = 0
    /\ llmBuilds = [a \in AgentIdInputs |-> 0]
    /\ mh = [h \in MemHandlers |-> IdleM]

EmptyStore ==
    /\ agentsDb = {}
    /\ convsDb = {}
    /\ arrivals = 0
    /\ seqCalls = [p \in Pairs |-> Clean]
    /\ ch = [h \in CtlHandlers |-> IdleC]

\* The clock stands at its last hour: no time passes.
InitConv == EmptyStore /\ now = MaxClock

InitRead ==
    /\ readLog = <<>>
    /\ readLimit = 0
    /\ readOut = <<>>
    /\ readDone = TRUE

InitReadAny ==
    /\ readLog \in Logs
    /\ readLimit \in 0..MaxLimit
    /\ readOut = <<>>
    /\ readDone = FALSE

\* A database left by earlier requests that ran one after the other: a
\* record for some pairs and, for some of those, a conversation that is
\* empty or holds one answered message.
UserNo(u) == IF u = "u1" THEN 1 ELSE 2

PairOid(p) == (UserNo(p[1]) - 1) * MaxAgentIds + p[2]

AgentDoc(p) == [oid |-> PairOid(p), userId |-> p[1], agentId |-> p[2],
                name |-> "n1", createdAt |-> 0, lastActive |-> 0]

ConversationDoc(p, messages) ==
    [oid |-> Cardinality(Pairs) + PairOid(p), userId |-> p[1],
     agentId |-> p[2], messages |-> messages]

EarlierLogs == {<<>>, <<UserMessage(0), AssistantMessage(0)>>}

InitStore ==
    /\ \E ps \in SUBSET Pairs :
         /\ agentsDb = {AgentDoc(p) : p \in ps}
         /\ \E cs \in SUBSET ps : \E log \in [cs -> EarlierLogs] :
               convsDb = {ConversationDoc(p, log[p]) : p \in cs}
    /\ now = 0
    /\ arrivals = 0
    /\ seqCalls = [p \in Pairs |-> Dirty]
    /\ ch = [h \in CtlHandlers |-> IdleC]

\* A database left by earlier requests, with the hour each agent was last
\* active.
InitAged ==
    /\ now \in 0..MaxClock
    /\ \E ps \in SUBSET Pairs :
         /\ \E la \in [ps -> 0..now] :
               agentsDb = {[AgentDoc(p) EXCEPT !.lastActive = la[p]] :
                             p \in ps}
         /\ \E cs \in SUBSET ps : \E log \in [cs -> EarlierLogs] :
               convsDb = {ConversationDoc(p, log[p]) : p \in cs}
    /\ arrivals = 0
    /\ seqCalls = [p \in Pairs |-> Dirty]
    /\ ch = [h \in CtlHandlers |-> IdleC]

Init == InitMem /\ InitConv /\ InitRead /\ InitHttp /\ resp = NoResp

InitHistory == InitMem /\ InitConv /\ InitReadAny /\ InitHttp /\ resp = NoResp

NextRegistry ==
    \/ \E h \in MemHandlers, u \in UserInputs, k \in KeyInputs, nm \in NameArgs :
          InitializeUserAgentStart(h, u, k, nm)
    \/ \E h \in MemHandlers : InitializeUserAgentResume(h)
    \/ \E a \in AgentIdInputs : RemoveAgent(a)
    \/ \E u \in Users : RemoveUserAgents(u)
    \/ \E a \in AgentIdArgs, nm \in NameArgs : UpdateAgentName(a, nm)

NextMem ==
    \/ NextRegistry
    \/ \E h \in MemHandlers, a \in AgentIdInputs : ProcessAgentMessageStart(h, a)
    \/ \E h \in MemHandlers : ProcessAgentMessageResume(h)
    \/ \E h \in MemHandlers : LlmSettles(h)
    \/ \E k \in GoodKeys \cup {"bad"} : WalletInitializeAgent(k)
    \/ SingletonProcessAgentMessage

NextConv ==
    \/ \E h \in CtlHandlers, u \in UserInputs, a \in AgentIdBodies,
          name \in NameInputs : CtlInitializeAgent(h, u, a, name)
    \/ \E h \in CtlHandlers : CreateOrUpdateAgentSave(h)
    \/ \E h \in CtlHandlers, u \in UserInputs, a \in AgentIdBodies :
          CtlProcessMessage(h, u, a)
    \/ \E h \in CtlHandlers : UpdateAgentActivity(h)
    \/ \E h \in CtlHandlers : GetOrCreateConversation(h)
    \/ \E h \in CtlHandlers : AddUserMessage(h)
    \/ \E h \in CtlHandlers : ReplyFails(h)
    \/ \E h \in CtlHandlers : ReplyArrives(h)
    \/ \E h \in CtlHandlers, u \in UserInputs, a \in AgentIdBodies :
          CtlRemoveAgent(h, u, a)
    \/ \E h \in CtlHandlers : CtlRemoveAgentCascade(h)
    \/ \E h \in CtlHandlers : CtlRemoveAgentRespond(h)

\* The requests that address one agent: message, remove, history, clear.
NextStore ==
    \/ \E h \in CtlHandlers, u \in UserInputs, a \in AgentIdBodies :
          CtlProcessMessage(h, u, a)
    \/ \E h \in CtlHandlers : UpdateAgentActivity(h)
    \/ \E h \in CtlHandlers : GetOrCreateConversation(h)
    \/ \E h \in CtlHandlers : AddUserMessage(h)
    \/ \E h \in CtlHandlers : ReplyFails(h)
    \/ \E h \in CtlHandlers : ReplyArrives(h)
    \/ \E h \in CtlHandlers, u \in UserInputs, a \in AgentIdBodies :
          CtlRemoveAgent(h, u, a)
    \/ \E h \in CtlHandlers : CtlRemoveAgentCascade(h)
    \/ \E h \in CtlHandlers : CtlRemoveAgentRespond(h)
    \/ \E h \in CtlHandlers, u \in UserInputs, a \in AgentIdBodies :
          CtlGetAgentConversation(h, u, a)
    \/ \E h \in CtlHandlers : GetConversationByUserAndAgentId(h)
    \/ \E h \in CtlHandlers : ReadConversationMessages(h)
    \/ \E h \in CtlHandlers, u \in UserInputs, a \in AgentIdBodies :
          CtlClearAgentConversation(h, u, a)
    \/ \E h \in CtlHandlers : ClearAgentConversationDelete(h)

\* The administrative requests and the sweep of the service.
NextAdmin ==
    \/ Tick
    \/ \E hours \in HoursArgs : CtlCleanupInactiveAgents(hours)
    \/ \E u \in UserInputs : CtlRemoveUserAgents(u)
    \/ \E a \in AgentIdBodies, nm \in NameInputs : CtlUpdateAgentName(a, nm)
    \/ \E h \in CtlHandlers, cutoff \in 0..MaxClock :
          RemoveInactiveAgentsFind(h, cutoff)
    \/ \E h \in CtlHandlers : RemoveInactiveAgentsDelete(h)

\* The service calls that write timestamps or select by them, with the
\* clock running.
NextClock ==
    \/ Tick
    \/ \E h \in CtlHandlers, u \in UserInputs, a \in AgentIdBodies,
          name \in NameInputs : CtlInitializeAgent(h, u, a, name)
    \/ \E h \in CtlHandlers : CreateOrUpdateAgentSave(h)
    \/ \E h \in CtlHandlers, u \in Users, a \in ConvAgentIds :
          UpdateAgentActivityCall(h, u, a)
    \/ \E h \in CtlHandlers : UpdateAgentActivity(h)
    \/ \E h \in CtlHandlers, cutoff \in 0..MaxClock :
          RemoveInactiveAgentsFind(h, cutoff)
    \/ \E h \in CtlHandlers : RemoveInactiveAgentsDelete(h)

NextHistory == GetAgentConversation

SpecRegistry == Init /\ [][NextRegistry]_vars

\* The persisted registry never reads ANTHROPIC_API_KEY.
InitPersisted == Init /\ anthropicKey

SpecConv == InitPersisted /\ [][NextConv]_vars

InitStored ==
    InitMem /\ anthropicKey /\ InitStore /\ InitRead /\ InitHttp /\ resp = NoResp

SpecStore == InitStored /\ [][NextStore]_vars

InitAdmin ==
    InitMem /\ anthropicKey /\ InitAged /\ InitRead /\ InitHttp /\ resp = NoResp

SpecAdmin == InitAdmin /\ [][NextAdmin]_vars

\* The clock starts at hour 0 and runs.
InitClock ==
    InitMem /\ anthropicKey /\ EmptyStore /\ now = 0 /\ InitRead
        /\ InitHttp /\ resp = NoResp

SpecClock == InitClock /\ [][NextClock]_vars

SpecHistory == InitHistory /\ [][NextHistory]_vars

SpecMem == Init /\ [][NextMem]_vars

SpecStream == Init /\ [][NextStream]_vars

SpecLimit == InitPersisted /\ [][NextLimit]_vars

\* ------------------------------------------------- the in-process registry

RouteInFlight(h) == mh[h].op = "route" /\ mh[h].pc # "idle"

\* C1: the conversational runtime a route call to agent A invokes was built
\* from a blockchain runtime bound to A's own secret.
C1_AnsweredByOwnRuntime ==
    \A h \in MemHandlers :
        (mh[h].op = "route" /\ mh[h].pc = "invoke")
            => mh[h].usedLlm.rt.key = agentObjs[mh[h].agentId].privateKey

\* C2: an agentId is listed under owner u exactly when its record is in the
\* primary map and belongs to u.
C2_IndexConsistent ==
    \A u \in Users, a \in AgentIdInputs :
        (u \in DOMAIN userAgents /\ a \in Range(userAgents[u]))
            <=> (a \in agents /\ agentObjs[a].userId = u)

\* A create of owner u is suspended on its binding while a record of u has
\* been removed.
C2_Witness ==
    \E h \in MemHandlers, a \in DOMAIN agentObjs :
        /\ mh[h].op = "create" /\ mh[h].pc = "awaitInit"
        /\ a \notin agents
        /\ agentObjs[a].userId = mh[h].userId

\* C4: two route calls in flight together for one agent, both started before
\* its conversational runtime was bound, cause one build in total.
C4_SingleBuild ==
    \A h1, h2 \in MemHandlers :
        (/\ h1 # h2
         /\ RouteInFlight(h1) /\ RouteInFlight(h2)
         /\ mh[h1].agentId = mh[h2].agentId
         /\ ~mh[h1].boundAtStart /\ ~mh[h2].boundAtStart)
            => llmBuilds[mh[h1].agentId] = 1

\* C5: no step of a route call that found its record bound constructs a
\* runtime or changes a handle: the records and the singleton keep the very
\* objects they held.
C5_BindIdempotent ==
    [][\A h \in MemHandlers :
          (mh'[h] # mh[h] /\ (mh[h].boundAtStart \/ mh'[h].boundAtStart))
              => (serial' = serial /\ agentObjs' = agentObjs
                  /\ aptosService' = aptosService)]_vars

\* A route call that found its record bound has reached the invocation.
C5_Witness ==
    \E h \in MemHandlers :
        mh[h].op = "route" /\ mh[h].boundAtStart /\ mh[h].pc = "invoke"

\* C6: a conversational runtime is held only where a blockchain runtime is
\* held, on every agent record and on the singleton the records are bound
\* through, and every conversational runtime was built from a blockchain
\* runtime.
C6_BindingOrder ==
    /\ \A a \in DOMAIN agentObjs :
          agentObjs[a].llmAgent # NoLlm
              => (agentObjs[a].agent # NoRt /\ agentObjs[a].llmAgent.rt # NoRt)
    /\ aptosService.llmAgent # NoLlm
          => (aptosService.agent # NoRt /\ aptosService.llmAgent.rt # NoRt)

\* A record holds both runtimes.
C6_Witness ==
    \E a \in agents : agentObjs[a].llmAgent # NoLlm /\ agentObjs[a].agent # NoRt

\* ------------------------------------------------- the persisted registry

Interleaved(ns) ==
    [i \in 1..(2 * Len(ns)) |->
        IF i % 2 = 1 THEN UserMessage(ns[(i + 1) \div 2])
                     ELSE AssistantMessage(ns[i \div 2])]

C8_ArrivalOrder ==
    \A d \in convsDb :
        \A i \in 1..Len(d.messages), j \in 1..Len(d.messages) :
            (d.messages[j].role = "user" /\ d.messages[i].n < d.messages[j].n)
            => i < j

\* C9: a read with limit k of a log of length total returns the last
\* min(k, total) messages of the log, oldest first.
C9_TailProjection ==
    (readDone /\ readLog # <<>>)
    => LET total == Len(readLog)
           k == Min(readLimit, total)
       IN readOut = SubSeq(readLog, total - k + 1, total)

\* C10: when the removal of an existing agent completes (and no create put
\* the agent back meanwhile), no agent record and no conversation entry
\* exists for the pair.
C10_CascadeDelete ==
    [][\A h \in CtlHandlers :
          (/\ ch[h].op = "remove" /\ ch[h].pc = "respond"
           /\ ch[h].removed /\ ~ch[h].reinserted
           /\ ch'[h] = IdleC)
          => /\ FindOne(agentsDb', ch[h].userId, ch[h].agentId) = {}
             /\ FindOne(convsDb', ch[h].userId, ch[h].agentId) = {}]_vars

\* ------------------------------------------- removal by owner, index shape

OwnedBy(u) == {a \in agents : agentObjs[a].userId = u}

\* C12: removeUserAgents(u) returns the number of records u owned just before
\* the call; afterwards u lists no agent and has no index entry, and the
\* records and index entries of the other owners are as they were.
C12_RemoveAllCount ==
    [][resp'.op = "removeUserAgents" =>
         LET u == resp'.userId
         IN  /\ resp'.count = Cardinality(OwnedBy(u))
             /\ GetUserAgents(agentObjs', agents', userAgents', u) = <<>>
             /\ u \notin DOMAIN userAgents'
             /\ \A w \in Users \ {u} :
                   /\ (w \in DOMAIN userAgents) = (w \in DOMAIN userAgents')
                   /\ w \in DOMAIN userAgents => userAgents'[w] = userAgents[w]
                   /\ {a \in agents : agentObjs[a].userId = w}
                        = {a \in agents' : agentObjs'[a].userId = w}]_vars

\* C13: no owner has an empty list, and every record is listed exactly once,
\* under exactly one owner.
C13_IndexShape ==
    /\ \A u \in DOMAIN userAgents : userAgents[u] # <<>>
    /\ \A a \in agents :
          Cardinality({ui \in Users \X (1..MaxUuid) :
                          /\ ui[1] \in DOMAIN userAgents
                          /\ ui[2] \in DOMAIN userAgents[ui[1]]
                          /\ userAgents[ui[1]][ui[2]] = a}) = 1

\* ------------------------------------------- requests that address an agent

\* C18: a message request that fails after its user message was appended
\* leaves a log that ends with that user message and holds no reply to it;
\* one that fails before the append (agent not found, or any earlier
\* failure) leaves every conversation as it was.
C18_FailedRouteLog ==
    [][/\ \A h \in CtlHandlers :
            (/\ ch[h].op = "msg" /\ ch'[h].pc = "idle"
             /\ resp'.op = "msg" /\ resp'.status = "500")
            => IF resp'.appended
               THEN \E d \in FindById(convsDb', ch[h].convId) :
                      /\ Len(d.messages) > 0
                      /\ d.messages[Len(d.messages)] = UserMessage(ch[h].n)
                      /\ AssistantMessage(ch[h].n) \notin Range(d.messages)
               ELSE convsDb' = convsDb
       /\ (resp'.op = "msg" /\ resp'.status = "404") => convsDb' = convsDb
      ]_vars

\* C19: a message, history or clear request is let past its lookup only when
\* the agent exists and is otherwise answered 404 with nothing changed; a
\* removal that found no agent changes no record and no conversation and is
\* answered 404.
C19_UnknownAgent ==
    [][/\ \A h \in CtlHandlers :
            (ch[h].pc = "idle" /\ ch'[h].op \in {"msg", "history", "clear"})
            => FindOne(agentsDb, ch'[h].userId, ch'[h].agentId) # {}
       /\ (resp'.status = "404" /\ resp'.op \in {"msg", "history", "clear"})
            => /\ FindOne(agentsDb, resp'.userId, resp'.agentId) = {}
               /\ agentsDb' = agentsDb
               /\ convsDb' = convsDb
       /\ \A h \in CtlHandlers :
            (ch[h].op = "remove" /\ ~ch[h].removed /\ ch'[h].pc # ch[h].pc)
            => /\ agentsDb' = agentsDb
               /\ convsDb' = convsDb
               /\ ch'[h].pc = "idle" => resp'.status = "404"
      ]_vars

\* C20: when a clear request completes, the agent records are as they were,
\* the pair has no conversation, a history read made at once returns an
\* empty list if the agent exists, and a clear that found no conversation
\* changed nothing.
C20_ClearThenRead ==
    [][\A h \in CtlHandlers :
          (ch[h].op = "clear" /\ ch'[h].pc = "idle")
          => LET u == ch[h].userId
                 a == ch[h].agentId
             IN  /\ resp'.op = "clear" /\ resp'.status = "200"
                 /\ agentsDb' = agentsDb
                 /\ FindOne(convsDb', u, a) = {}
                 /\ convsDb \ FindOne(convsDb, u, a) \subseteq convsDb'
                 /\ FindOne(agentsDb', u, a) # {}
                      => History(agentsDb', convsDb', u, a)
                            = [status |-> "200", messages |-> <<>>]
                 /\ FindOne(convsDb, u, a) = {} => convsDb' = convsDb
      ]_vars

\* C20 witness: a clear has just deleted the conversation of an agent that
\* is still registered.
C20_Witness ==
    /\ resp.op = "clear" /\ resp.status = "200" /\ resp.count = 1
    /\ \E d \in agentsDb : FindOne(convsDb, d.userId, d.agentId) = {}

\* ------------------------------------------------ administrative requests

\* C11: when a remove-all request for owner u completes, no record of u is
\* left and no conversation is left for any agent u owned.
C11_RemoveAllCascade ==
    [][(resp'.op = "ctlRemoveUserAgents" /\ resp'.userId # "") =>
          \A d \in agentsDb :
             d.userId = resp'.userId
                => /\ d \notin agentsDb'
                   /\ FindOne(convsDb', d.userId, d.agentId) = {}]_vars

\* C14: the cleanup request removes exactly the records last active strictly
\* before now - maxAge and answers with their number.
C14_CleanupExact ==
    [][resp'.op = "cleanup" =>
          LET stale == Inactive(agentsDb, now - resp'.hours)
          IN  /\ agentsDb' = agentsDb \ stale
              /\ resp'.status = "200"
              /\ resp'.count = Cardinality(stale)]_vars

\* C15: when the sweep has deleted its agents, no conversation is left for
\* any agent it deleted.
C15_SweepCascade ==
    [][\A h \in CtlHandlers :
          (ch[h].op = "sweep" /\ ch'[h].pc = "idle")
             => \A d \in agentsDb \ agentsDb' :
                   FindOne(convsDb', d.userId, d.agentId) = {}]_vars

\* C16: a rename request with an empty name is answered 400 and one that
\* names no existing agent is answered 404; neither changes a name or adds a
\* record.
C16_RenameErrors ==
    [][resp'.op = "ctlUpdateAgentName" =>
          /\ resp'.name = "" => (resp'.status = "400" /\ agentsDb' = agentsDb)
          /\ (/\ resp'.name # "" /\ resp'.agentId # 0
              /\ \A d \in agentsDb : d.agentId # resp'.agentId)
                => (resp'.status = "404" /\ agentsDb' = agentsDb)]_vars

\* --------------------------------------------------------- what reads show

\* The registry with every private key replaced: in the records and in the
\* runtimes built from them.
WithKeys(f) ==
    [a \in DOMAIN agentObjs |->
        [agentObjs[a] EXCEPT
            !.privateKey = f[a],
            !.agent = IF @ = NoRt THEN @ ELSE [@ EXCEPT !.key = f[a]],
            !.llmAgent = IF @ = NoLlm \/ @.rt = NoRt THEN @
                         ELSE [@ EXCEPT !.rt.key = f[a]]]]

\* C17: getAgent, getAgentStatus, getUserAgents, getAllAgents, the result of
\* initializeUserAgent and the result of updateAgentName are the same in any
\* two registries that differ only in their private keys.
C17_ReadsHideKeys ==
    \A f \in [DOMAIN agentObjs -> GoodKeys] :
        LET other == WithKeys(f)
        IN  /\ GetAllAgents(other, agents) = GetAllAgents(agentObjs, agents)
            /\ \A u \in Users :
                  GetUserAgents(other, agents, userAgents, u)
                     = GetUserAgents(agentObjs, agents, userAgents, u)
            /\ \A a \in AgentIdArgs :
                  /\ GetAgent(other, agents, a) = GetAgent(agentObjs, agents, a)
                  /\ a # 0 => GetAgentStatus(other, agents, a)
                                 = GetAgentStatus(agentObjs, agents, a)
                  /\ a \in agents => InitializeUserAgentResult(other, a)
                                       = InitializeUserAgentResult(agentObjs, a)

\* C17 witness: two records with different private keys are stored and a
\* rename has just returned the summary of one.
C17_Witness ==
    /\ resp.op = "updateAgentName" /\ resp.status = "ok"
    /\ \E a \in agents, b \in agents :
          agentObjs[a].privateKey # agentObjs[b].privateKey

\* ----------------------------------------------------- races on one agent

\* The removal of the pair's agent has completed: no record and no removal
\* request in flight.
RemovalDone(u, a) ==
    /\ FindOne(agentsDb, u, a) = {}
    /\ \A g \in CtlHandlers :
          ~(ch[g].op = "remove" /\ ch[g].userId = u /\ ch[g].agentId = a)

\* C24: the next step of a message request whose agent has been removed
\* ends the request with 404 and writes no conversation; once the removal
\* and every message request for the pair have finished, the pair has no
\* conversation.
C24_RouteRemoveRace ==
    /\ [][\A h \in CtlHandlers :
            (/\ ch[h].op = "msg" /\ ch'[h] # ch[h]
             /\ RemovalDone(ch[h].userId, ch[h].agentId))
            => /\ convsDb' = convsDb
               /\ ch'[h].pc = "idle"
               /\ resp'.status = "404"]_vars
    /\ [](\A p \in Pairs :
            (RemovalDone(p[1], p[2]) /\ ~MsgInFlight(p[1], p[2]))
               => FindOne(convsDb, p[1], p[2]) = {})

\* C29: a pair never has two conversations, and a message request that
\* found no conversation gets one when it saves its own.
C29_GetOrCreateRace ==
    /\ [](\A p \in Pairs : Cardinality(FindOne(convsDb, p[1], p[2])) <= 1)
    /\ [][\A h \in CtlHandlers :
            (ch[h].op = "msg" /\ ch[h].pc = "saveConv" /\ ch'[h] # ch[h])
            => ch'[h].pc = "addUser"]_vars

\* ------------------------------------------------------------- timestamps

\* C25: every agent document has lastActive >= createdAt.
C25_ActiveAfterCreated ==
    \A d \in agentsDb : d.lastActive >= d.createdAt

\* C27: when the sweep returns, its count is the length of its list of
\* inactive agents and no agent of that list is left in the collection.
C27_SweepResult ==
    [][\A h \in CtlHandlers :
          (ch[h].op = "sweep" /\ ch'[h].pc = "idle")
             => /\ resp'.count = Cardinality(ch[h].found)
                /\ \A d \in ch[h].found : FindById(agentsDb', d.oid) = {}]_vars

\* ------------------------------------------------------ creation failures

\* C26: a creation whose key the signer rejects ends in an error without an
\* agentId and leaves the records, the primary map and the owner index as
\* they were.
C26_FailedCreate ==
    [][\A h \in MemHandlers :
          (/\ mh[h].op = "create" /\ mh'[h].pc = "idle"
           /\ mh[h].key \notin GoodKeys)
          => /\ agents' = agents
             /\ userAgents' = userAgents
             /\ agentObjs' = agentObjs
             /\ resp'.op = "initializeUserAgent"
             /\ resp'.status = "error"
             /\ resp'.agentId = 0]_vars

\* C26 witness: a creation has just failed while the registry holds a
\* record.
C26_Witness ==
    /\ resp.op = "initializeUserAgent" /\ resp.status = "error"
    /\ agents # {}

\* ------------------------------------------------------------------ C28
\* C28: every message request receives exactly one terminal response; on the
\* streaming path, once fragments have been written, an error of the stream
\* leads to no JSON body being attempted on that response, which is closed.
C28_OneResponse ==
    \A h \in StreamHandlers :
        /\ res[h].jsonCalls + res[h].endCalls <= 1
        /\ res[h].chunks # <<>> => res[h].jsonCalls = 0
        /\ (sh[h].pc = "idle" /\ res[h] # NoRes) =>
               res[h].ended /\ res[h].jsonCalls + res[h].endCalls = 1

\* ------------------------------------------------------------------ C21
\* The texts a response delivered, in order.
Delivered(r) == [i \in 1..Len(r.chunks) |-> r.chunks[i].data]

RECURSIVE Concat(_)
Concat(ts) == IF ts = <<>> THEN <<>> ELSE Head(ts) \o Concat(Tail(ts))

\* The conversation store holds an assistant message of user u with this
\* content.
Persisted(u, text) ==
    \E c \in convsDb :
        /\ c.userId = u
        /\ \E i \in 1..Len(c.messages) :
               /\ c.messages[i].role = "assistant"
               /\ "content" \in DOMAIN c.messages[i]
               /\ c.messages[i].content = text

\* C21: a streamed reply has its assistant message persisted if and only if
\* the stream completed, the message being the concatenation of the
\* delivered fragments; a stream that ended on an upstream error leaves none.
C21_StreamPersist ==
    \A h \in StreamHandlers :
        (sh[h].pc = "idle" /\ res[h].contentType = "text/event-stream") =>
            (res[h].endCalls = 1 <=>
                 Persisted(sh[h].userId, Concat(Delivered(res[h]))))

\* ------------------------------------------------------------------ C22
\* C22: every request by one caller on behalf of one owner, whichever route
\* it is for, is counted against the one general counter of that caller and
\* owner.
C22_SharedBudget ==
    [][\A ip \in Ips, u \in Owners, e \in Endpoints :
           Admission(ip, e, u) =>
               hits'[<<ip, u>>] = Bump(hits[<<ip, u>>], GeneralMax)]_vars

\* ------------------------------------------------------------------ C23
\* C23: within one window no caller and owner get more creations and
\* removals through than the sensitive allowance, whatever is left of the
\* general budget.
C23_SensitiveBudget ==
    \A p \in Ips \X Owners : admitted[p] <= SensitiveMax
============================================================================
